---- MODULE Spec2Model ----
(***************************************************************************)
(* Cable Generator (src/cable_generator.py): the scene objects the add-on  *)
(* creates and re-synchronises, its operators and its scene-update         *)
(* callback.                                                               *)
(*                                                                         *)
(* Numbers.  The add-on computes with floats; the model computes exactly   *)
(* with integers in fixed units:                                           *)
(*   - lengths and coordinates: integer units; every position is drawn     *)
(*     from Corner(1..4), a 150 x 200 rectangle, so that every distance    *)
(*     between two positions is an integer (0, 150, 200 or 250) and the    *)
(*     factors 0.4 and 0.3 of update_cable_handles give integers;          *)
(*   - unit vectors: a normalized vector is held as its primitive integer  *)
(*     direction (the vector divided by the gcd of its components); for    *)
(*     the axis-aligned normals used here that IS the unit vector;         *)
(*   - cable_sag, end_cap_scale: hundredths (60 is 0.6, 100 is 1.0);       *)
(*   - cable_resolution: tenths (120 is 12, 85 is 8.5); the scene setting  *)
(*     resolution and the curve's resolution_u are integers;               *)
(*   - thickness, object scale, array_scale: thousandths (50 is 0.05);     *)
(*     the 0.001 tolerance of the callback is 1 in this unit.              *)
(* Names are sequences of tokens: "Cap_Start_1" is <<"Cap_Start","1">>.    *)
(* The context of an operator (selected objects, active object, edit-mode  *)
(* face selection) is an input of its action.                              *)
(***************************************************************************)
EXTENDS Integers, Sequences, FiniteSets, TLC

VARIABLES objs, props, collections, last, edits

vars == <<objs, props, collections, last, edits>>

\* ------------------------------------------------------------------ bounds
NumMesh == 3
MaxObjs == 9
MaxSel == 3
MaxEdits == 1
MaxCables == 2
MaxExtra == 1
MaxOrganized == 4
MaxDecorators == 3

\* ----------------------------------------------------------------- vectors
Zero == <<0, 0, 0>>
ZUp == <<0, 0, 1>>

Abs(n) == IF n < 0 THEN -n ELSE n

VAdd(a, b) == <<a[1] + b[1], a[2] + b[2], a[3] + b[3]>>
VSub(a, b) == <<a[1] - b[1], a[2] - b[2], a[3] - b[3]>>
VMul(a, k) == <<a[1] * k, a[2] * k, a[3] * k>>
VNeg(a) == VMul(a, -1)
Dot(a, b) == a[1] * b[1] + a[2] * b[2] + a[3] * b[3]
Cross(a, b) == <<a[2] * b[3] - a[3] * b[2],
                 a[3] * b[1] - a[1] * b[3],
                 a[1] * b[2] - a[2] * b[1]>>

RECURSIVE Gcd(_, _)
Gcd(a, b) == IF b = 0 THEN a ELSE Gcd(b, a % b)

\* Vector.normalized(): the zero vector stays zero.
Normalized(v) ==
    IF v = Zero THEN Zero
    ELSE LET g == Gcd(Gcd(Abs(v[1]), Abs(v[2])), Abs(v[3]))
         IN  <<v[1] \div g, v[2] \div g, v[3] \div g>>

\* Vector.length, for the differences of two positions of the rectangle.
Length(v) == LET n == Dot(v, v) IN CHOOSE d \in {0, 150, 200, 250} : d * d = n

\* The four corners of the rectangle all positions are drawn from.
Corner(i) ==
    LET k == ((i - 1) % 4) + 1
    IN  IF k = 1 THEN <<0, 0, 0>>
        ELSE IF k = 2 THEN <<150, 0, 0>>
        ELSE IF k = 3 THEN <<150, 200, 0>>
        ELSE <<0, 200, 0>>

Axes == << <<1, 0, 0>>, <<0, 0, 1>>, <<-1, 0, 0>>, <<0, 1, 0>>, <<0, 0, -1>>, <<0, -1, 0>> >>

NumStr(i) == IF i = 1 THEN "1" ELSE IF i = 2 THEN "2" ELSE IF i = 3 THEN "3"
             ELSE IF i = 4 THEN "4" ELSE "5"

\* ----------------------------------------------------------------- objects
Ids(os) == {os[i].id : i \in 1..Len(os)}
Idx(os, id) == CHOOSE i \in 1..Len(os) : os[i].id = id
Obj(os, id) == os[Idx(os, id)]
SetObj(os, id, o) == [os EXCEPT ![Idx(os, id)] = o]
FreshId(os) == CHOOSE i \in 1..(Len(os) + 1) : i \notin Ids(os)

\* obj.children, in scene order
RECURSIVE ChildrenFrom(_, _, _)
ChildrenFrom(os, id, i) ==
    IF i > Len(os) THEN <<>>
    ELSE (IF os[i].parent = id THEN <<os[i].id>> ELSE <<>>) \o ChildrenFrom(os, id, i + 1)
Children(os, id) == ChildrenFrom(os, id, 1)

\* A sequence built as a function, as the tuple it is.
AsSeq(f) == f \o <<>>

\* The element of a singleton set: "Only({e(x) : x \in {v}})" is e of v,
\* with v computed once (the loops below thread the scene through it).
Only(S) == CHOOSE x \in S : TRUE

\* "key in obj.keys()", obj[key] = value, del obj[key]
HasKey(o, k) == k \in DOMAIN o.cp
Get(o, k, default) == IF HasKey(o, k) THEN o.cp[k] ELSE default
Truthy(v) == v # 0
SetKey(o, k, v) == [o EXCEPT !.cp = (k :> v) @@ o.cp]
DelKey(o, k) == [o EXCEPT !.cp = [x \in (DOMAIN o.cp) \ {k} |-> o.cp[x]]]

\* name.startswith(tok): the first token is tok, or the one token that
\* begins with it.
StartsWith(name, tok) ==
    /\ Len(name) > 0
    /\ \/ name[1] = tok
       \/ tok = "Cap_End" /\ name[1] = "Cap_End_temp"
       \/ tok = "Cap_Start" /\ name[1] = "Cap_Start_temp"

\* The host keeps object names unique: a taken name gets a numeric suffix.
UniqueName(os, name) ==
    LET used == {os[i].name : i \in 1..Len(os)}
    IN  IF name \notin used THEN name
        ELSE LET k == CHOOSE j \in 1..(Len(os) + 1) :
                          /\ (name \o <<".00", NumStr(j)>>) \notin used
                          /\ \A m \in 1..(j - 1) : (name \o <<".00", NumStr(m)>>) \in used
             IN  name \o <<".00", NumStr(k)>>

IdentityRot == << <<1, 0, 0>>, <<0, 1, 0>>, <<0, 0, 1>> >>

\* bpy.data.objects.new: a fresh object with the host's defaults.
NewObject(os, type, name) ==
    [id |-> FreshId(os), type |-> type, name |-> UniqueName(os, name), parent |-> 0,
     colls |-> {}, cp |-> [k \in {} |-> 0],
     loc |-> Zero, rot |-> IdentityRot, scale |-> <<1000, 1000, 1000>>,
     npts |-> 0, co |-> <<Zero, Zero>>, hl |-> <<Zero, Zero>>, hr |-> <<Zero, Zero>>,
     resu |-> 12, mods |-> <<>>]


\* ------------------------------------------------------- helper functions
SceneColl == "Collection"

\* Face k of a mesh, in world space: centre and normal (the host's
\* matrix_world @ calc_center_median and the rotated face normal).
get_face_center_and_normal(o, k) ==
    [object |-> o.id,
     center |-> Corner(o.id + k - 1),
     normal |-> Normalized(Axes[((2 * o.id + k) % 6) + 1])]

RECURSIVE FacesFrom(_, _, _, _, _)
FacesFrom(os, sel, edit, fsel, i) ==
    IF i > Len(os) THEN <<>>
    ELSE LET o == os[i]
             mine == IF o.id \in sel /\ o.type = "MESH" /\ o.id \in edit
                     THEN (IF 1 \in fsel[o.id] THEN <<get_face_center_and_normal(o, 1)>> ELSE <<>>)
                          \o (IF 2 \in fsel[o.id] THEN <<get_face_center_and_normal(o, 2)>> ELSE <<>>)
                     ELSE <<>>
         IN  mine \o FacesFrom(os, sel, edit, fsel, i + 1)

\* sel: context.selected_objects; edit: the objects in EDIT mode;
\* fsel[id]: the selected faces of object id.
get_selected_faces(os, sel, edit, fsel) == FacesFrom(os, sel, edit, fsel, 1)

RECURSIVE CentersFrom(_, _, _)
CentersFrom(os, sel, i) ==
    IF i > Len(os) THEN <<>>
    ELSE (IF os[i].id \in sel /\ os[i].type = "MESH"
          THEN <<[object |-> os[i].id, center |-> os[i].loc, normal |-> ZUp]>>
          ELSE <<>>) \o CentersFrom(os, sel, i + 1)

get_object_centers(os, sel) == CentersFrom(os, sel, 1)

\* The rotation matrix both create_end_cap and update_end_cap_orientations
\* build from a unit z axis: rows x, y, z (columns after transposed()).
\* abs(z.x) > 0.9 for the unit vector of direction z: 100 z1^2 > 81 |z|^2.
RotFromAxis(z) ==
    LET x0 == IF 100 * z[1] * z[1] > 81 * Dot(z, z) THEN <<0, 1, 0>> ELSE <<1, 0, 0>>
        y  == Normalized(Cross(z, x0))
        x  == Normalized(Cross(y, z))
    IN  <<x, y, z>>

\* The cap object before it is placed: a copy of the custom mesh, or a new
\* primitive.
CapObject(os, cap_type, custom_mesh, fresh) ==
    IF cap_type = "CUSTOM" /\ custom_mesh # 0
    THEN [Obj(os, custom_mesh) EXCEPT !.id = fresh.id, !.name = fresh.name,
                                      !.colls = {SceneColl}]
    ELSE [fresh EXCEPT !.colls = {SceneColl}]

\* location, rotation built on the normal, uniform scale, and the tag
PlaceCap(made, position, z_axis, scale) ==
    SetKey([made EXCEPT !.loc = position,
                        !.rot = RotFromAxis(z_axis),
                        !.scale = <<scale, scale, scale>>],
           "is_end_cap", 1)

LinkCap(os, cap) == [os |-> Append(os, cap), cap |-> cap.id]

\* Returns [os, cap]: the scene with the cap linked, and the cap's id
\* (0 for None).
create_end_cap(os, position, normal, cap_type, custom_mesh, scale, name) ==
    IF (cap_type = "CUSTOM" /\ custom_mesh # 0) \/ cap_type = "CYLINDER" \/ cap_type = "SPHERE"
    THEN LinkCap(os, PlaceCap(CapObject(os, cap_type, custom_mesh, NewObject(os, "MESH", name)),
                              position, Normalized(normal), scale))
    ELSE [os |-> os, cap |-> 0]

\* The orientation a cap of this name gets from the curve: the rotation
\* built on the start tangent (Cap_Start...) or the end tangent (Cap_End...).
StartTangent(c) == Normalized(VSub(c.hr[1], c.co[1]))
EndTangent(c) == Normalized(VSub(c.co[2], c.hl[2]))

OrientChild(c, child) ==
    IF StartsWith(child.name, "Cap_Start")
    THEN [child EXCEPT !.rot = RotFromAxis(StartTangent(c))]
    ELSE IF StartsWith(child.name, "Cap_End")
    THEN [child EXCEPT !.rot = RotFromAxis(EndTangent(c))]
    ELSE child

update_end_cap_orientations(os, id) ==
    LET c == Obj(os, id)
    IN  IF c.npts < 2 THEN os
        ELSE AsSeq([i \in 1..Len(os) |->
                       IF os[i].parent = id THEN OrientChild(c, os[i]) ELSE os[i]])

\* normal.normalized(), with (0, 0, 1) for a zero-length normal
NormalOrUp(n) == IF Normalized(n) = Zero THEN ZUp ELSE Normalized(n)

\* The handle direction at one end: the normal, flipped when it points away
\* from the other end (alignment < -0.3, with direction = toward / distance).
HandleDir(normal, toward, distance) ==
    IF 10 * Dot(normal, toward) < -3 * distance THEN VNeg(normal) ELSE normal

HandlesFrom(start_pos, end_pos, start_handle_dir, end_handle_dir, distance, sag) ==
    [hl0 |-> VSub(start_pos, VMul(start_handle_dir, (distance * 12) \div 100)),
     hr0 |-> VAdd(VAdd(start_pos, VMul(start_handle_dir, (distance * 4) \div 10)),
                  <<0, 0, -((distance * sag) \div 200)>>),
     hl1 |-> VAdd(VAdd(end_pos, VMul(end_handle_dir, (distance * 4) \div 10)),
                  <<0, 0, -((distance * sag) \div 200)>>),
     hr1 |-> VSub(end_pos, VMul(end_handle_dir, (distance * 12) \div 100))]

\* The four handles update_cable_handles computes from the metadata.
Handles(start_pos, end_pos, sn, en, sag) ==
    HandlesFrom(start_pos, end_pos,
                HandleDir(NormalOrUp(sn), VSub(end_pos, start_pos),
                          Length(VSub(end_pos, start_pos))),
                HandleDir(NormalOrUp(en), VSub(start_pos, end_pos),
                          Length(VSub(end_pos, start_pos))),
                Length(VSub(end_pos, start_pos)), sag)

\* A variant that writes the right handles only.
SetHandlesRight(c, h) == [c EXCEPT !.hr = <<h.hr0, h.hr1>>]

SetHandles(c, h) == [c EXCEPT !.hl = <<h.hl0, h.hl1>>, !.hr = <<h.hr0, h.hr1>>]

MetadataHandles(c) ==
    Handles(c.cp["start_pos"], c.cp["end_pos"], c.cp["start_normal"], c.cp["end_normal"],
            Get(c, "cable_sag", 0))

\* Returns [os, raised]: raised when a key the function reads without a
\* test is missing (KeyError); nothing has been written by then.
update_cable_handles(os, id) ==
    IF ~HasKey(Obj(os, id), "start_pos") \/ Obj(os, id).npts < 2
    THEN [os |-> os, raised |-> FALSE]
    ELSE IF ~HasKey(Obj(os, id), "end_pos") \/ ~HasKey(Obj(os, id), "start_normal")
            \/ ~HasKey(Obj(os, id), "end_normal")
    THEN [os |-> os, raised |-> TRUE]
    ELSE [os |-> update_end_cap_orientations(
                     SetObj(os, id, SetHandles(Obj(os, id), MetadataHandles(Obj(os, id)))), id),
          raised |-> FALSE]

CableProps(start_pos, end_pos, start_normal, end_normal) ==
    [k \in {"is_cable", "cable_thickness", "cable_resolution", "cable_sag", "start_pos",
            "end_pos", "start_normal", "end_normal", "has_end_caps", "end_cap_scale"} |->
        IF k = "is_cable" THEN 1
        ELSE IF k = "cable_thickness" THEN 50
        ELSE IF k = "cable_resolution" THEN 120
        ELSE IF k = "cable_sag" THEN 0
        ELSE IF k = "start_pos" THEN start_pos
        ELSE IF k = "end_pos" THEN end_pos
        ELSE IF k = "start_normal" THEN start_normal
        ELSE IF k = "end_normal" THEN end_normal
        ELSE IF k = "has_end_caps" THEN 0
        ELSE 100]

\* The new curve object: one bezier spline of two points, and the metadata.
NewCurve(fresh, start_pos, start_normal, end_pos, end_normal) ==
    [fresh EXCEPT !.npts = 2, !.co = <<start_pos, end_pos>>,
                  !.colls = {SceneColl},
                  !.cp = CableProps(start_pos, end_pos, start_normal, end_normal)]

LinkCurve(os, curve) ==
    [os |-> update_cable_handles(Append(os, curve), curve.id).os, curve |-> curve.id]

\* Returns [os, curve]: the scene with the new cable linked, and its id.
create_curve_between_points(os, start_pos, sn, end_pos, en, name) ==
    LinkCurve(os, NewCurve(NewObject(os, "CURVE", name),
                           start_pos, NormalOrUp(sn), end_pos, NormalOrUp(en)))


\* ------------------------------------------------------------------- state

Meshes == 1..NumMesh

\* The scene before the add-on is used: NumMesh mesh objects, one at each
\* corner, in the scene's collection.
InitialMesh(i) ==
    [id |-> i, type |-> "MESH", name |-> <<"Cube", NumStr(i)>>, parent |-> 0,
     colls |-> {SceneColl}, cp |-> [k \in {} |-> 0],
     loc |-> Corner(i), rot |-> IdentityRot, scale |-> <<1000, 1000, 1000>>,
     npts |-> 0, co |-> <<Zero, Zero>>, hl |-> <<Zero, Zero>>, hr |-> <<Zero, Zero>>,
     resu |-> 12, mods |-> <<>>]

\* CableGenProperties: the defaults, and the settings the user chose in the
\* panels before the first command.
CableGenProperties ==
    {p \in [thickness : {50}, resolution : {12},
            connection_mode : {"SEQUENTIAL", "ALL_TO_FIRST"},
            add_end_caps : BOOLEAN,
            end_cap_type : {"CYLINDER", "SPHERE", "CUSTOM"},
            end_cap_mesh : {0, 1},
            organize_collections : BOOLEAN,
            array_mesh : {0, 2},
            array_scale : {1000}] :
        p.end_cap_mesh # 0 => p.end_cap_type = "CUSTOM"}

NoOp == [op |-> "none", result |-> "NONE", level |-> "NONE", count |-> 0,
         pts |-> <<>>, created |-> <<>>, target |-> 0, faces |-> FALSE]

\* What a command ends with: its return value (result), the level of the
\* message it reports, the count the message states, and for the record the
\* points it worked on, the cables it created, the object it was run on and
\* whether it took the face branch.
Report(op, result, level, count, pts, created, target) ==
    [op |-> op, result |-> result, level |-> level, count |-> count,
     pts |-> pts, created |-> created, target |-> target, faces |-> FALSE]

\* What a command leaves: the scene, the settings, the collections, and the
\* report it ends with.
Out(os, p, colls, report) == [objs |-> os, props |-> p, collections |-> colls, last |-> report]

Init ==
    /\ objs = [i \in Meshes |-> InitialMesh(i)]
    /\ props \in CableGenProperties
    /\ collections = <<SceneColl>>
    /\ last = NoOp
    /\ edits = 0

\* --------------------------------------------------------- Generate Cable
\* A variant of the chain in which every cable starts at the first point.
SequentialPairsFromFirst(os, pts) ==
    AsSeq([i \in 1..(Len(pts) - 1) |->
        [a |-> pts[1], b |-> pts[i + 1],
         cable |-> <<"Cable", NumStr(i)>>,
         start_cap |-> <<"Cap_Start", NumStr(i)>>,
         end_cap |-> <<"Cap_End", NumStr(i)>>]])

\* The endpoint pairs of the cables one call creates, with the names the
\* cable and its caps are given.
SequentialPairs(os, pts) ==
    AsSeq([i \in 1..(Len(pts) - 1) |->
        [a |-> pts[i], b |-> pts[i + 1],
         cable |-> <<"Cable", NumStr(i)>>,
         start_cap |-> <<"Cap_Start", NumStr(i)>>,
         end_cap |-> <<"Cap_End", NumStr(i)>>]])

\* A variant of the star in which every cable starts where the one before
\* it ends.
AllToFirstPairsChained(os, pts) ==
    AsSeq([i \in 1..(Len(pts) - 1) |->
        [a |-> pts[i], b |-> pts[i + 1],
         cable |-> <<"Cable", "to">> \o Obj(os, pts[i + 1].object).name,
         start_cap |-> <<"Cap_Start", "to">> \o Obj(os, pts[i + 1].object).name,
         end_cap |-> <<"Cap_End", "to">> \o Obj(os, pts[i + 1].object).name]])

AllToFirstPairs(os, pts) ==
    AsSeq([i \in 1..(Len(pts) - 1) |->
        [a |-> pts[1], b |-> pts[i + 1],
         cable |-> <<"Cable", "to">> \o Obj(os, pts[i + 1].object).name,
         start_cap |-> <<"Cap_Start", "to">> \o Obj(os, pts[i + 1].object).name,
         end_cap |-> <<"Cap_End", "to">> \o Obj(os, pts[i + 1].object).name]])

\* curve_obj["cable_thickness"], ["cable_resolution"], data.resolution_u
SetCableSettings(r, p) ==
    [os |-> SetObj(r.os, r.curve,
                   [SetKey(SetKey(Obj(r.os, r.curve), "cable_thickness", p.thickness),
                           "cable_resolution", 10 * p.resolution)
                       EXCEPT !.resu = p.resolution]),
     curve |-> r.curve]

\* "if start_cap:" parent it and set the flag; "if end_cap:" parent it.
ParentCap(sc, curve, flag) ==
    IF sc.cap = 0 THEN [os |-> sc.os, curve |-> curve]
    ELSE [os |-> SetObj(SetObj(sc.os, sc.cap, [Obj(sc.os, sc.cap) EXCEPT !.parent = curve]),
                        curve,
                        IF flag THEN SetKey(Obj(sc.os, curve), "has_end_caps", 1)
                        ELSE Obj(sc.os, curve)),
          curve |-> curve]

StartCap(r, pr, p) ==
    ParentCap(create_end_cap(r.os, pr.a.center, pr.a.normal, p.end_cap_type,
                             p.end_cap_mesh, p.thickness * 20, pr.start_cap),
              r.curve, TRUE)

EndCap(r, pr, p) ==
    ParentCap(create_end_cap(r.os, pr.b.center, pr.b.normal, p.end_cap_type,
                             p.end_cap_mesh, p.thickness * 20, pr.end_cap),
              r.curve, FALSE)

\* A variant that adds the caps whatever add_end_caps says.
WithCapsAlways(r, pr, p) == EndCap(StartCap(r, pr, p), pr, p)

WithCaps(r, pr, p) == IF p.add_end_caps THEN EndCap(StartCap(r, pr, p), pr, p) ELSE r

\* One pass of the loop body: the cable, then its caps.
GenerateOne(os, pr, p) ==
    WithCaps(SetCableSettings(create_curve_between_points(os, pr.a.center, pr.a.normal,
                                                          pr.b.center, pr.b.normal, pr.cable),
                              p),
             pr, p)

RECURSIVE GenerateLoop(_, _, _, _, _)
GenerateLoop(os, prs, i, p, created) ==
    IF i > Len(prs) THEN [os |-> os, created |-> created]
    ELSE Only({GenerateLoop(g.os, prs, i + 1, p, Append(created, g.curve)) :
                  g \in {GenerateOne(os, prs[i], p)}})

\* "Cables" collection: every created cable is unlinked from its
\* collections and linked to it.
Organize(os, created) ==
    AsSeq([i \in 1..Len(os) |->
        IF \E j \in 1..Len(created) : created[j] = os[i].id
        THEN [os[i] EXCEPT !.colls = {"Cables"}]
        ELSE os[i]])

\* bpy.data.collections.get("Cables"), or a new collection of that name
\* linked to the scene: colls is bpy.data.collections, in creation order.
CablesCollection(colls) ==
    IF \E k \in 1..Len(colls) : colls[k] = "Cables" THEN colls ELSE Append(colls, "Cables")

\* A variant that makes a new collection at every call.
GenerateDoneNewCollection(p, colls, pts, g) ==
    IF Len(g.created) > 1 /\ p.organize_collections
    THEN Out(Organize(g.os, g.created), p, Append(colls, "Cables"),
             Report("generate", "FINISHED", "INFO", Len(g.created), pts, g.created, 0))
    ELSE Out(g.os, p, colls,
             Report("generate", "FINISHED", "INFO", Len(g.created), pts, g.created, 0))

\* The end of execute: the "Cables" collection and the report.
GenerateDone(p, colls, pts, g) ==
    IF Len(g.created) > 1 /\ p.organize_collections
    THEN Out(Organize(g.os, g.created), p, CablesCollection(colls),
             Report("generate", "FINISHED", "INFO", Len(g.created), pts, g.created, 0))
    ELSE Out(g.os, p, colls,
             Report("generate", "FINISHED", "INFO", Len(g.created), pts, g.created, 0))

\* A variant that goes on with a single point.
GenerateFromLoose(os, p, colls, pts, chained) ==
    IF Len(pts) < 1
    THEN Out(os, p, colls, Report("generate", "CANCELLED", "WARNING", 0, pts, <<>>, 0))
    ELSE GenerateDone(p, colls, pts,
                      GenerateLoop(os, IF chained THEN SequentialPairs(os, pts)
                                       ELSE AllToFirstPairs(os, pts),
                                   1, p, <<>>))

\* execute from the points on: chained is the face branch or SEQUENTIAL.
GenerateFrom(os, p, colls, pts, chained) ==
    IF Len(pts) < 2
    THEN Out(os, p, colls, Report("generate", "CANCELLED", "WARNING", 0, pts, <<>>, 0))
    ELSE GenerateDone(p, colls, pts,
                      GenerateLoop(os, IF chained THEN SequentialPairs(os, pts)
                                       ELSE AllToFirstPairs(os, pts),
                                   1, p, <<>>))

FaceBranch(r) == [r EXCEPT !.last.faces = TRUE]

EditModeObjects(os, sel, edit) == {id \in sel : Obj(os, id).type = "MESH" /\ id \in edit}

\* CABLEGEN_OT_GenerateCable.execute on the scene os, settings p and
\* collections colls, in the context (sel, edit, fsel).
GenerateCable(os, p, colls, sel, edit, fsel) ==
    IF sel = {}
    THEN Out(os, p, colls, Report("generate", "CANCELLED", "WARNING", 0, <<>>, <<>>, 0))
    ELSE IF EditModeObjects(os, sel, edit) # {}
    THEN FaceBranch(GenerateFrom(os, p, colls, get_selected_faces(os, sel, edit, fsel), TRUE))
    ELSE GenerateFrom(os, p, colls, get_object_centers(os, sel),
                      p.connection_mode = "SEQUENTIAL")

\* ------------------------------------------------------- Toggle End Caps
RECURSIVE RemoveCaps(_, _, _)
\* bpy.data.objects.remove of every child of id with a truthy is_end_cap
RemoveCaps(os, id, i) ==
    IF i > Len(os) THEN <<>>
    ELSE (IF os[i].parent = id /\ Truthy(Get(os[i], "is_end_cap", 0)) THEN <<>> ELSE <<os[i]>>)
         \o RemoveCaps(os, id, i + 1)

IsCable(os, id) == id # 0 /\ Obj(os, id).type = "CURVE" /\ HasKey(Obj(os, id), "is_cable")

SetParent(r, parent) ==
    IF r.cap = 0 THEN r.os
    ELSE SetObj(r.os, r.cap, [Obj(r.os, r.cap) EXCEPT !.parent = parent])

\* thickness * 20.0 * cap_scale of the cable's metadata
CapScale(cable) ==
    (Get(cable, "cable_thickness", 50) * 20 * Get(cable, "end_cap_scale", 100)) \div 100

AddCap(os, id, p, pos_key, normal_key, prefix) ==
    SetParent(create_end_cap(os, Obj(os, id).cp[pos_key], Obj(os, id).cp[normal_key],
                             p.end_cap_type, p.end_cap_mesh, CapScale(Obj(os, id)),
                             <<prefix>> \o Obj(os, id).name),
              id)

SetFlag(os, id, v) == SetObj(os, id, SetKey(Obj(os, id), "has_end_caps", v))

\* A variant without the orientation update: the caps keep the rotation
\* built on the stored normals.
AddCapsUnoriented(os, id, p) ==
    SetFlag(AddCap(AddCap(os, id, p, "start_pos", "start_normal", "Cap_Start"),
                   id, p, "end_pos", "end_normal", "Cap_End"),
            id, 1)

\* The else branch of ToggleEndCaps.execute: both caps, the flag, and the
\* orientation update.
AddCaps(os, id, p) ==
    update_end_cap_orientations(
        SetFlag(AddCap(AddCap(os, id, p, "start_pos", "start_normal", "Cap_Start"),
                       id, p, "end_pos", "end_normal", "Cap_End"),
                id, 1),
        id)

\* A variant that sets the flag before it looks for the position data.
ToggleEndCapsEager(os, p, colls, active) ==
    IF ~IsCable(os, active)
    THEN Out(os, p, colls, Report("toggle", "CANCELLED", "WARNING", 0, <<>>, <<>>, active))
    ELSE IF Truthy(Get(Obj(os, active), "has_end_caps", 0))
    THEN Out(SetFlag(RemoveCaps(os, active, 1), active, 0), p, colls,
             Report("toggle", "FINISHED", "INFO", Len(os) - Len(RemoveCaps(os, active, 1)),
                    <<>>, <<>>, active))
    ELSE IF ~HasKey(Obj(os, active), "start_pos") \/ ~HasKey(Obj(os, active), "end_pos")
    THEN Out(SetFlag(os, active, 1), p, colls,
             Report("toggle", "CANCELLED", "WARNING", 0, <<>>, <<>>, active))
    ELSE IF ~HasKey(Obj(os, active), "start_normal") \/ ~HasKey(Obj(os, active), "end_normal")
    THEN Out(os, p, colls, Report("toggle", "RAISED", "NONE", 0, <<>>, <<>>, active))
    ELSE Out(AddCaps(os, active, p), p, colls,
             Report("toggle", "FINISHED", "INFO", 0, <<>>, <<>>, active))

\* CABLEGEN_OT_ToggleEndCaps.execute with context.active_object = active
\* (0 for None).
ToggleEndCaps(os, p, colls, active) ==
    IF ~IsCable(os, active)
    THEN Out(os, p, colls, Report("toggle", "CANCELLED", "WARNING", 0, <<>>, <<>>, active))
    ELSE LET cable == Obj(os, active)
             removed == RemoveCaps(os, active, 1)
         IN  IF Truthy(Get(cable, "has_end_caps", 0))
             THEN Out(SetObj(removed, active, SetKey(cable, "has_end_caps", 0)), p, colls,
                      Report("toggle", "FINISHED", "INFO", Len(os) - Len(removed),
                             <<>>, <<>>, active))
             ELSE IF ~HasKey(cable, "start_pos") \/ ~HasKey(cable, "end_pos")
             THEN Out(os, p, colls,
                      Report("toggle", "CANCELLED", "WARNING", 0, <<>>, <<>>, active))
             ELSE IF ~HasKey(cable, "start_normal") \/ ~HasKey(cable, "end_normal")
             THEN \* KeyError, outside the try block
                  Out(os, p, colls, Report("toggle", "RAISED", "NONE", 0, <<>>, <<>>, active))
             ELSE Out(AddCaps(os, active, p), p, colls,
                      Report("toggle", "FINISHED", "INFO", 0, <<>>, <<>>, active))

\* ----------------------------------------------------- Reverse Direction
\* str.replace on a name: every occurrence of the text a becomes b.
\* "Cap_End_temp" is the one token that contains another ("Cap_End").
ReplaceToken(tok, a, b) ==
    IF tok = a THEN b
    ELSE IF tok = "Cap_End_temp" /\ a = "Cap_End" /\ b = "Cap_Start" THEN "Cap_Start_temp"
    ELSE tok

Replace(name, a, b) == AsSeq([i \in 1..Len(name) |-> ReplaceToken(name[i], a, b)])

\* obj.name = name: the host makes the name unique among the other objects.
Rename(os, i, name) ==
    LET others == SubSeq(os, 1, i - 1) \o SubSeq(os, i + 1, Len(os))
    IN  [os EXCEPT ![i].name = UniqueName(others, name)]

RECURSIVE RenameCaps(_, _, _, _, _)
\* One of the three renaming loops: the children in caps, in scene order.
RenameCaps(os, caps, a, b, i) ==
    IF i > Len(os) THEN os
    ELSE Only({RenameCaps(os1, caps, a, b, i + 1) :
                  os1 \in {IF os[i].id \in caps
                           THEN Rename(os, i, Replace(os[i].name, a, b)) ELSE os}})

\* start_pos <-> end_pos, start_normal <-> end_normal
SwapEnds(cable) ==
    SetKey(SetKey(SetKey(SetKey(cable,
        "start_pos", cable.cp["end_pos"]),
        "end_pos", cable.cp["start_pos"]),
        "start_normal", cable.cp["end_normal"]),
        "end_normal", cable.cp["start_normal"])

\* The children the two name tests of the first loop pick.
StartCaps(os, id) ==
    {os[j].id : j \in {k \in 1..Len(os) :
        os[k].parent = id /\ StartsWith(os[k].name, "Cap_Start")}}
EndCaps(os, id) ==
    {os[j].id : j \in {k \in 1..Len(os) :
        os[k].parent = id /\ ~StartsWith(os[k].name, "Cap_Start")
        /\ StartsWith(os[k].name, "Cap_End")}}

\* A variant without the third loop: the former start caps keep the
\* temporary name.
SwapCapNamesNoThird(os, start_caps, end_caps) ==
    RenameCaps(RenameCaps(os, start_caps, "Cap_Start", "Cap_End_temp", 1),
               end_caps, "Cap_End", "Cap_Start", 1)

\* The three renaming loops.
SwapCapNames(os, start_caps, end_caps) ==
    RenameCaps(RenameCaps(RenameCaps(os, start_caps, "Cap_Start", "Cap_End_temp", 1),
                          end_caps, "Cap_End", "Cap_Start", 1),
               start_caps, "Cap_End_temp", "Cap_End", 1)

SwapCaps(os, id) == SwapCapNames(os, StartCaps(os, id), EndCaps(os, id))

ReverseBody(os, id) ==
    update_end_cap_orientations(
        SwapCaps(update_cable_handles(SetObj(os, id, SwapEnds(Obj(os, id))), id).os, id),
        id)

\* CABLEGEN_OT_ReverseCable.execute with context.active_object = active.
ReverseCable(os, p, colls, active) ==
    IF ~IsCable(os, active)
    THEN Out(os, p, colls, Report("reverse", "CANCELLED", "WARNING", 0, <<>>, <<>>, active))
    ELSE LET cable == Obj(os, active)
         IN  IF ~HasKey(cable, "start_pos") \/ ~HasKey(cable, "end_pos")
             THEN Out(os, p, colls,
                      Report("reverse", "CANCELLED", "WARNING", 0, <<>>, <<>>, active))
             ELSE IF ~HasKey(cable, "start_normal") \/ ~HasKey(cable, "end_normal")
             THEN \* KeyError
                  Out(os, p, colls, Report("reverse", "RAISED", "NONE", 0, <<>>, <<>>, active))
             ELSE Out(ReverseBody(os, active), p, colls,
                      Report("reverse", "FINISHED", "INFO", 0, <<>>, <<>>, active))

\* ------------------------------------------------------ Apply Array Mesh
ArrayModifiers ==
    << [type |-> "ARRAY", fit_type |-> "FIT_CURVE", count |-> 10],
       [type |-> "CURVE", fit_type |-> "NONE", count |-> 0] >>

\* A variant that leaves the copy at the scale of the array mesh.
ApplyArrayOneUnscaled(os, id, p) ==
    Append(os,
           SetKey(SetKey(SetKey(SetKey(
               [Obj(os, p.array_mesh) EXCEPT
                   !.id = NewObject(os, "MESH", <<"Array">> \o Obj(os, id).name).id,
                   !.name = NewObject(os, "MESH", <<"Array">> \o Obj(os, id).name).name,
                   !.colls = {SceneColl}, !.mods = ArrayModifiers,
                   !.loc = Obj(os, id).loc, !.parent = id],
               "has_array", 1), "array_scale", p.array_scale), "array_count", 10),
               "array_fit_curve", 1))

\* One pass of the loop of ApplyArrayMesh.execute, for the curve of id.
ApplyArrayOne(os, id, p) ==
    LET curve == Obj(os, id)
        fresh == NewObject(os, "MESH", <<"Array">> \o curve.name)
        copy == [Obj(os, p.array_mesh) EXCEPT
                    !.id = fresh.id, !.name = fresh.name, !.colls = {SceneColl},
                    !.mods = ArrayModifiers,
                    !.loc = curve.loc,
                    !.scale = <<p.array_scale, p.array_scale, p.array_scale>>,
                    !.parent = id]
        array_obj == SetKey(SetKey(SetKey(SetKey(copy, "has_array", 1),
                         "array_scale", p.array_scale), "array_count", 10),
                         "array_fit_curve", 1)
    IN  Append(os, array_obj)

RECURSIVE ApplyArrayLoop(_, _, _, _, _)
\* over the selected curves, in scene order (the first n objects)
ApplyArrayLoop(os, sel, p, n, i) ==
    IF i > n THEN os
    ELSE Only({ApplyArrayLoop(os1, sel, p, n, i + 1) :
                  os1 \in {IF os[i].id \in sel /\ os[i].type = "CURVE"
                           THEN ApplyArrayOne(os, os[i].id, p) ELSE os}})

\* CABLEGEN_OT_ApplyArrayMesh.execute with context.selected_objects = sel.
ApplyArrayMesh(os, p, colls, sel) ==
    LET curves == {id \in sel : Obj(os, id).type = "CURVE"}
        made == ApplyArrayLoop(os, sel, p, Len(os), 1)
    IN  IF p.array_mesh = 0 \/ curves = {}
        THEN Out(os, p, colls, Report("apply_array", "CANCELLED", "WARNING", 0, <<>>, <<>>, 0))
        ELSE Out(made, p, colls,
                 Report("apply_array", "FINISHED", "INFO", Cardinality(curves), <<>>,
                        AsSeq([i \in 1..(Len(made) - Len(os)) |-> made[Len(os) + i].id]), 0))

\* A variant that also sets the count metadata back to 10.
SetArrayModeResetCount(os, p, colls, op, active, value) ==
    Out(IF active # 0 /\ HasKey(Obj(os, active), "array_fit_curve")
        THEN SetObj(os, active,
                    SetKey(SetKey(Obj(os, active), "array_fit_curve", value),
                           "array_count", 10))
        ELSE os,
        p, colls, Report(op, "FINISHED", "NONE", 0, <<>>, <<>>, active))

\* CABLEGEN_OT_SetArrayFitCurve.execute / CABLEGEN_OT_SetArrayFixedCount.execute
SetArrayMode(os, p, colls, op, active, value) ==
    Out(IF active # 0 /\ HasKey(Obj(os, active), "array_fit_curve")
        THEN SetObj(os, active, SetKey(Obj(os, active), "array_fit_curve", value))
        ELSE os,
        p, colls, Report(op, "FINISHED", "NONE", 0, <<>>, <<>>, active))

SetArrayFitCurve(os, p, colls, active) == SetArrayMode(os, p, colls, "fit_curve", active, 1)
SetArrayFixedCount(os, p, colls, active) == SetArrayMode(os, p, colls, "fixed_count", active, 0)

\* ------------------------------------------------------- Convert to Mesh
RECURSIVE ConvertLoop(_, _, _, _)
ConvertLoop(os, sel, n, i) ==
    IF i > n THEN os
    ELSE LET o == os[i]
             isCable == o.id \in sel /\ o.type = "CURVE" /\ Truthy(Get(o, "is_cable", 0))
             mesh_obj == [NewObject(os, "MESH", o.name \o <<"mesh">>) EXCEPT
                             !.loc = o.loc, !.rot = o.rot, !.scale = o.scale,
                             !.colls = {SceneColl}]
         IN  Only({ConvertLoop(os1, sel, n, i + 1) :
                      os1 \in {IF isCable THEN Append(os, mesh_obj) ELSE os}})

\* CABLEGEN_OT_ConvertToMesh.execute with context.selected_objects = sel.
ConvertToMesh(os, p, colls, sel) ==
    LET cables == {id \in sel : Obj(os, id).type = "CURVE"
                                 /\ Truthy(Get(Obj(os, id), "is_cable", 0))}
    IN  IF cables = {}
        THEN Out(os, p, colls, Report("convert", "CANCELLED", "WARNING", 0, <<>>, <<>>, 0))
        ELSE Out(ConvertLoop(os, sel, Len(os), 1), p, colls,
                 Report("convert", "FINISHED", "INFO", Cardinality(cables), <<>>, <<>>, 0))

\* ---------------------------------------------------------- Apply Preset
PresetTypes == {"THIN", "MEDIUM", "THICK", "POWER"}

\* The thickness the description of a preset_type item states.
PresetDescription(preset_type) ==
    IF preset_type = "THIN" THEN 10
    ELSE IF preset_type = "MEDIUM" THEN 50
    ELSE IF preset_type = "THICK" THEN 100
    ELSE 80

PresetThickness(preset_type) ==
    IF preset_type = "THIN" THEN 10
    ELSE IF preset_type = "MEDIUM" THEN 50
    ELSE IF preset_type = "THICK" THEN 100
    ELSE 80

PresetResolution(preset_type) ==
    IF preset_type = "THIN" THEN 8
    ELSE IF preset_type = "MEDIUM" THEN 12
    ELSE IF preset_type = "THICK" THEN 16
    ELSE 12

\* A variant that also writes the preset into every existing cable.
ApplyPresetToCables(os, p, colls, preset_type) ==
    Out(AsSeq([i \in 1..Len(os) |->
                  IF os[i].type = "CURVE" /\ HasKey(os[i], "is_cable")
                  THEN SetKey(SetKey(os[i], "cable_thickness", PresetThickness(preset_type)),
                              "cable_resolution", 10 * PresetResolution(preset_type))
                  ELSE os[i]]),
        [p EXCEPT !.thickness = PresetThickness(preset_type),
                  !.resolution = PresetResolution(preset_type)],
        colls, Report("preset", "FINISHED", "INFO", 0, <<>>, <<>>, 0))

\* CABLEGEN_OT_ApplyPreset.execute
ApplyPreset(os, p, colls, preset_type) ==
    Out(os,
        [p EXCEPT !.thickness = PresetThickness(preset_type),
                  !.resolution = PresetResolution(preset_type)],
        colls, Report("preset", "FINISHED", "INFO", 0, <<>>, <<>>, 0))

\* ------------------------------------------------- scene-update callback
\* (a - b).length > 0.001, in thousandths
Differs(a, b) == Dot(VSub(a, b), VSub(a, b)) > 1

\* A variant that leaves the cap-scale multiplier out.
CapScalesThickness(os, i) ==
    AsSeq([j \in 1..Len(os) |->
        IF os[j].parent = os[i].id /\ Truthy(Get(os[j], "is_end_cap", 0))
           /\ Differs(os[j].scale, <<os[i].cp["cable_thickness"] * 20,
                                     os[i].cp["cable_thickness"] * 20,
                                     os[i].cp["cable_thickness"] * 20>>)
        THEN [os[j] EXCEPT !.scale = <<os[i].cp["cable_thickness"] * 20,
                                       os[i].cp["cable_thickness"] * 20,
                                       os[i].cp["cable_thickness"] * 20>>]
        ELSE os[j]])

\* A variant that scales each cap relative to the scale it has.
CapScalesRelative(os, i) ==
    AsSeq([j \in 1..Len(os) |->
        IF os[j].parent = os[i].id /\ Truthy(Get(os[j], "is_end_cap", 0))
        THEN [os[j] EXCEPT !.scale = <<(os[j].scale[1] * os[i].cp["end_cap_scale"]) \div 100,
                                       (os[j].scale[2] * os[i].cp["end_cap_scale"]) \div 100,
                                       (os[j].scale[3] * os[i].cp["end_cap_scale"]) \div 100>>]
        ELSE os[j]])

\* The end-cap scale pass of the callback for the cable os[i].
CapScales(os, i) ==
    LET obj == os[i]
        base_scale == (obj.cp["cable_thickness"] * 20 * obj.cp["end_cap_scale"]) \div 100
        target_scale == <<base_scale, base_scale, base_scale>>
    IN  AsSeq([j \in 1..Len(os) |->
            IF os[j].parent = obj.id /\ Truthy(Get(os[j], "is_end_cap", 0))
               /\ Differs(os[j].scale, target_scale)
            THEN [os[j] EXCEPT !.scale = target_scale]
            ELSE os[j]])

\* The first ARRAY modifier of an object (0 if it has none).
FirstArray(o) ==
    IF \E k \in 1..Len(o.mods) : o.mods[k].type = "ARRAY"
    THEN CHOOSE k \in 1..Len(o.mods) :
             /\ o.mods[k].type = "ARRAY"
             /\ \A m \in 1..(k - 1) : o.mods[m].type # "ARRAY"
    ELSE 0

\* A variant that never sets the fit type back to FIXED_COUNT.
UpdateArrayFitOnly(obj) ==
    IF FirstArray(obj) # 0 /\ HasKey(obj, "array_fit_curve") /\ Truthy(obj.cp["array_fit_curve"])
    THEN [obj EXCEPT !.mods[FirstArray(obj)].fit_type = "FIT_CURVE"]
    ELSE obj

\* A variant that sets the fit type and never the count.
UpdateArrayNoCount(obj) ==
    IF FirstArray(obj) = 0 \/ ~HasKey(obj, "array_fit_curve") THEN obj
    ELSE [obj EXCEPT !.mods[FirstArray(obj)].fit_type =
                         IF Truthy(obj.cp["array_fit_curve"]) THEN "FIT_CURVE"
                         ELSE "FIXED_COUNT"]

\* The array branch of the callback for one object.
UpdateArray(obj) ==
    LET scaled == IF HasKey(obj, "array_scale")
                     /\ Differs(obj.scale, <<obj.cp["array_scale"], obj.cp["array_scale"],
                                             obj.cp["array_scale"]>>)
                  THEN [obj EXCEPT !.scale = <<obj.cp["array_scale"], obj.cp["array_scale"],
                                               obj.cp["array_scale"]>>]
                  ELSE obj
        k == FirstArray(obj)
    IN  IF k = 0 \/ ~HasKey(obj, "array_fit_curve") THEN scaled
        ELSE IF Truthy(obj.cp["array_fit_curve"])
        THEN [scaled EXCEPT !.mods[k].fit_type = "FIT_CURVE"]
        ELSE IF HasKey(obj, "array_count")
        THEN [scaled EXCEPT !.mods[k].fit_type = "FIXED_COUNT",
                            !.mods[k].count = obj.cp["array_count"]]
        ELSE [scaled EXCEPT !.mods[k].fit_type = "FIXED_COUNT"]

\* int(v) of a value held in tenths: the fraction is cut off.
IntOf(v) == IF v < 0 THEN -((-v) \div 10) ELSE v \div 10

\* A variant that leaves the curve's resolution alone.
SetResolutionNever(os, i) == os

\* cable.data.resolution_u = int(obj["cable_resolution"])
SetResolution(os, i) ==
    IF HasKey(os[i], "cable_resolution")
    THEN [os EXCEPT ![i].resu = IntOf(os[i].cp["cable_resolution"])]
    ELSE os

\* The cap-scale pass, after the handles (h = [os, raised]).
CapPass(h, i) ==
    IF h.raised THEN h
    ELSE IF HasKey(h.os[i], "cable_thickness") /\ HasKey(h.os[i], "end_cap_scale")
    THEN [os |-> CapScales(h.os, i), raised |-> FALSE]
    ELSE h

\* The body of the callback's loop for scene.objects[i]: [os, raised].
HandlerStep(os, i) ==
    IF os[i].type = "CURVE" /\ HasKey(os[i], "is_cable")
    THEN CapPass(IF HasKey(os[i], "cable_sag")
                 THEN update_cable_handles(SetResolution(os, i), os[i].id)
                 ELSE [os |-> SetResolution(os, i), raised |-> FALSE],
                 i)
    ELSE IF os[i].type = "MESH" /\ HasKey(os[i], "has_array")
    THEN [os |-> [os EXCEPT ![i] = UpdateArray(os[i])], raised |-> FALSE]
    ELSE [os |-> os, raised |-> FALSE]

RECURSIVE HandlerLoop(_, _)
HandlerLoop(os, i) ==
    IF i > Len(os) THEN [os |-> os, raised |-> FALSE]
    ELSE Only({IF r.raised THEN r ELSE HandlerLoop(r.os, i + 1) :
                  r \in {HandlerStep(os, i)}})

\* cable_update_handler(scene): what it leaves, and whether it ended in an
\* exception (the objects before the failing one stay updated).
cable_update_handler(os) == HandlerLoop(os, 1)

\* One run of the callback, as a step of the scene.
HandlerOut(r, p, colls) ==
    Out(r.os, p, colls,
        Report("update", IF r.raised THEN "RAISED" ELSE "DONE", "NONE", 0, <<>>, <<>>, 0))

RunHandler(os, p, colls) == HandlerOut(cable_update_handler(os), p, colls)

\* ------------------------------------------------------ the user's edits
\* What the user does between commands with the host's own tools: edit or
\* delete a custom property, drag a curve handle, transform an object,
\* dissolve a curve point, change a modifier.  At most MaxEdits of them.
EditValues(key) ==
    IF key = "cable_sag" THEN {60}
    ELSE IF key = "cable_thickness" THEN {10}
    ELSE IF key = "end_cap_scale" THEN {200}
    ELSE IF key = "cable_resolution" THEN {85}
    ELSE IF key = "start_pos" THEN {Corner(3)}
    ELSE IF key = "end_pos" THEN {Corner(4)}
    ELSE IF key = "start_normal" THEN {Zero}
    ELSE IF key = "end_normal" THEN {<<0, 0, -1>>}
    ELSE IF key = "array_scale" THEN {500}
    ELSE IF key = "array_count" THEN {20}
    ELSE {}

Edited(os) ==
    /\ edits < MaxEdits
    /\ os # objs
    /\ objs' = os
    /\ edits' = edits + 1
    /\ last' = Report("edit", "NONE", "NONE", 0, <<>>, <<>>, 0)
    /\ UNCHANGED <<props, collections>>

EditProperty ==
    \E i \in 1..Len(objs) : \E key \in DOMAIN objs[i].cp : \E v \in EditValues(key) :
        Edited([objs EXCEPT ![i] = SetKey(objs[i], key, v)])

\* delete one of the custom properties keys from an object that has it
DeletePropertyIn(keys) ==
    \E i \in 1..Len(objs) : \E key \in (DOMAIN objs[i].cp) \cap keys :
        Edited([objs EXCEPT ![i] = DelKey(objs[i], key)])

PropertyKeys ==
    {"is_cable", "cable_thickness", "cable_resolution", "cable_sag", "start_pos", "end_pos",
     "start_normal", "end_normal", "has_end_caps", "end_cap_scale", "is_end_cap",
     "has_array", "array_scale", "array_count", "array_fit_curve"}

DeleteProperty == DeletePropertyIn(PropertyKeys)

Dragged == <<10, 20, 30>>

EditHandle ==
    \E i \in 1..Len(objs) : \E h \in {"hl0", "hr0", "hl1", "hr1"} :
        /\ objs[i].type = "CURVE" /\ objs[i].npts >= 2
        /\ Edited([objs EXCEPT ![i] =
                      IF h = "hl0" THEN [@ EXCEPT !.hl[1] = Dragged]
                      ELSE IF h = "hr0" THEN [@ EXCEPT !.hr[1] = Dragged]
                      ELSE IF h = "hl1" THEN [@ EXCEPT !.hl[2] = Dragged]
                      ELSE [@ EXCEPT !.hr[2] = Dragged]])

\* move, rotate or scale a child object (a cap or an array decorator); the
\* last choice changes one axis of the scale by 0.001.
EditTransform ==
    \E i \in 1..Len(objs) : \E t \in {"move", "rotate", "scale", "nudge"} :
        /\ objs[i].parent # 0
        /\ Edited([objs EXCEPT ![i] =
                      IF t = "move" THEN [@ EXCEPT !.loc = Corner(4)]
                      ELSE IF t = "rotate" THEN [@ EXCEPT !.rot = IdentityRot]
                      ELSE IF t = "scale" THEN [@ EXCEPT !.scale = <<500, 500, 500>>]
                      ELSE [@ EXCEPT !.scale[1] = @ + 1]])

DissolvePoint ==
    \E i \in 1..Len(objs) :
        /\ objs[i].type = "CURVE" /\ objs[i].npts >= 2
        /\ Edited([objs EXCEPT ![i].npts = 1])

\* change the first array modifier's fit type or count by hand
EditModifier ==
    \E i \in 1..Len(objs) : \E t \in {"fit", "count"} :
        /\ FirstArray(objs[i]) # 0
        /\ Edited([objs EXCEPT ![i].mods[FirstArray(objs[i])] =
                      IF t = "count" THEN [@ EXCEPT !.count = 7]
                      ELSE [@ EXCEPT !.fit_type = IF @ = "FIT_CURVE" THEN "FIXED_COUNT"
                                                  ELSE "FIT_CURVE"]])

\* ------------------------------------------------------------- commands
\* A command's step: the scene it leaves fits the model's object bound.
Step(r) ==
    /\ Len(r.objs) <= MaxObjs
    /\ objs' = r.objs
    /\ props' = r.props
    /\ collections' = r.collections
    /\ last' = r.last
    /\ UNCHANGED edits

\* The contexts a command is run in: up to MaxSel selected objects; either
\* no object in edit mode or every selected mesh in edit mode, with the same
\* faces selected in each.
Selections == {s \in SUBSET Ids(objs) : Cardinality(s) <= MaxSel}
FaceChoices == {{}, {1}, {1, 2}}
Actives == Ids(objs) \cup {0}

NumCables(os) == Cardinality({i \in 1..Len(os) : os[i].type = "CURVE"})

\* The array decorators and converted meshes of a scene: the meshes that are
\* neither of the initial scene nor end caps.
NumExtra(os) ==
    Cardinality({i \in 1..Len(os) : /\ os[i].type = "MESH" /\ os[i].id \notin Meshes
                                    /\ ~Truthy(Get(os[i], "is_end_cap", 0))})

\* Generate Cable with one of the selections sels, in object mode or with
\* every selected mesh in edit mode, in a scene of at most cables cables.
GenerateUpTo(sels, cables) ==
    /\ NumCables(objs) < cables
    /\ \E sel \in sels, editing \in BOOLEAN, f \in FaceChoices :
        /\ editing \/ f = {}
        /\ \E r \in {GenerateCable(objs, props, collections, sel,
                                   IF editing THEN sel ELSE {}, [id \in sel |-> f])} :
              NumCables(r.objs) <= cables /\ Step(r)

GenerateIn(sels) == GenerateUpTo(sels, MaxCables)

Generate == GenerateIn(Selections)

\* The first Generate Cable of a scene, which has no cable yet.
GenerateFirst(sels) == NumCables(objs) = 0 /\ GenerateIn(sels)

Toggle ==
    \E active \in Actives : \E r \in {ToggleEndCaps(objs, props, collections, active)} : Step(r)
Reverse ==
    \E active \in Actives : \E r \in {ReverseCable(objs, props, collections, active)} : Step(r)
\* Apply Array Mesh, in a scene of at most extra decorators.
ApplyArrayWithin(extra) ==
    \E sel \in Selections : \E r \in {ApplyArrayMesh(objs, props, collections, sel)} :
        (Len(r.objs) > Len(objs) => NumExtra(r.objs) <= extra) /\ Step(r)
ApplyArray == ApplyArrayWithin(MaxExtra)
FitCurve ==
    \E active \in Actives : \E r \in {SetArrayFitCurve(objs, props, collections, active)} : Step(r)
FixedCount ==
    \E active \in Actives : \E r \in {SetArrayFixedCount(objs, props, collections, active)} : Step(r)
Convert ==
    \E sel \in Selections : \E r \in {ConvertToMesh(objs, props, collections, sel)} :
        (Len(r.objs) > Len(objs) => NumExtra(r.objs) <= MaxExtra) /\ Step(r)
Preset ==
    \E preset_type \in PresetTypes :
        \E r \in {ApplyPreset(objs, props, collections, preset_type)} : Step(r)
SceneUpdate ==
    \E r \in {RunHandler(objs, props, collections)} : Step(r)

Next ==
    \/ Generate
    \/ Toggle
    \/ Reverse
    \/ ApplyArray
    \/ FitCurve
    \/ FixedCount
    \/ Convert
    \/ Preset
    \/ SceneUpdate
    \/ EditProperty
    \/ DeleteProperty
    \/ EditHandle
    \/ EditTransform
    \/ DissolvePoint
    \/ EditModifier

Spec == Init /\ [][Next]_vars

\* ------------------------------------------------------------ scenarios
\* The parts of the add-on that work together, each with the settings and
\* the selections its commands are used with.

\* Generate Cable alone, with every selection and every connection mode.
InitGenerate == Init /\ props.array_mesh = 0 /\ props.end_cap_type = "CYLINDER"
NextGenerate == Generate
SpecGenerate == InitGenerate /\ [][NextGenerate]_vars

\* Cables (with and without caps) that the user edits by hand, and the
\* scene-update callback.
InitUpdate ==
    /\ Init
    /\ props.array_mesh = 0 /\ props.end_cap_type = "CYLINDER"
    /\ props.connection_mode = "SEQUENTIAL" /\ ~props.organize_collections
NextUpdate ==
    \/ GenerateFirst({{2, 3}, {1, 2, 3}})
    \/ SceneUpdate
    \/ EditProperty
    \/ DeleteProperty
    \/ EditHandle
    \/ EditTransform
    \/ DissolvePoint
SpecUpdate == InitUpdate /\ [][NextUpdate]_vars

\* Two chained cables, their caps toggled and their direction reversed.
InitCaps ==
    /\ Init
    /\ props.array_mesh = 0 /\ props.end_cap_type # "SPHERE"
    /\ props.connection_mode = "SEQUENTIAL" /\ ~props.organize_collections
NextCaps ==
    \/ GenerateFirst({{1, 2, 3}})
    \/ Toggle
    \/ Reverse
    \/ SceneUpdate
SpecCaps == InitCaps /\ [][NextCaps]_vars

\* Array decorators on a cable, their metadata edited by hand.
InitArray ==
    /\ Init
    /\ ~props.add_end_caps /\ props.end_cap_type = "CYLINDER"
    /\ props.connection_mode = "SEQUENTIAL" /\ ~props.organize_collections
NextArray ==
    \/ GenerateFirst({{1, 2}})
    \/ ApplyArray
    \/ FitCurve
    \/ FixedCount
    \/ SceneUpdate
    \/ EditProperty
    \/ DeleteProperty
    \/ EditTransform
    \/ EditModifier
SpecArray == InitArray /\ [][NextArray]_vars

\* The commands that can refuse to run, on scenes with and without cables,
\* some of them stripped of a property.
InitCommands ==
    /\ Init
    /\ ~props.add_end_caps /\ props.end_cap_type = "CYLINDER"
    /\ props.connection_mode = "SEQUENTIAL" /\ ~props.organize_collections
NextCommands ==
    \/ GenerateFirst({{1, 2}})
    \/ Toggle
    \/ Reverse
    \/ ApplyArray
    \/ Convert
    \/ DeletePropertyIn({"is_cable", "start_pos", "end_pos"})
SpecCommands == InitCommands /\ [][NextCommands]_vars

\* Presets applied before and after cables are generated, the cables'
\* metadata edited by hand, and the scene-update callback.
InitPreset ==
    /\ Init
    /\ props.end_cap_type = "CYLINDER" /\ props.array_mesh = 0
    /\ props.connection_mode = "SEQUENTIAL" /\ ~props.organize_collections
NextPreset ==
    \/ Preset
    \/ GenerateFirst({{1, 2}, {1, 2, 3}})
    \/ SceneUpdate
    \/ EditProperty
SpecPreset == InitPreset /\ [][NextPreset]_vars

\* Array decorators applied again and again to two cables, with two values
\* of the array scale setting.
InitDecorate ==
    /\ objs = [i \in Meshes |-> InitialMesh(i)]
    /\ props \in {[p EXCEPT !.array_scale = v] :
                      p \in {q \in CableGenProperties :
                                 /\ ~q.add_end_caps /\ q.end_cap_type = "CYLINDER"
                                 /\ ~q.organize_collections},
                      v \in {1000, 2500}}
    /\ collections = <<SceneColl>>
    /\ last = NoOp
    /\ edits = 0
NextDecorate ==
    \/ GenerateFirst({{1, 2, 3}})
    \/ ApplyArrayWithin(MaxDecorators)
    \/ SceneUpdate
SpecDecorate == InitDecorate /\ [][NextDecorate]_vars

\* The first Generate Cable of a scene with each cap setting: caps off and
\* on, each cap type, CUSTOM with and without a custom mesh.
InitCapTypes ==
    /\ Init
    /\ props.array_mesh = 0 /\ ~props.organize_collections
NextCapTypes == GenerateFirst(SUBSET Meshes)
SpecCapTypes == InitCapTypes /\ [][NextCapTypes]_vars

\* A cable with caps and a decorator, every kind of edit by hand, and the
\* scene-update callback.
InitDerived ==
    /\ Init
    /\ props.end_cap_type = "CYLINDER"
    /\ props.connection_mode = "SEQUENTIAL" /\ ~props.organize_collections
NextDerived ==
    \/ GenerateFirst({{1, 2}})
    \/ ApplyArray
    \/ FixedCount
    \/ SceneUpdate
    \/ EditProperty
    \/ DeleteProperty
    \/ EditHandle
    \/ EditTransform
    \/ DissolvePoint
    \/ EditModifier
SpecDerived == InitDerived /\ [][NextDerived]_vars

\* Generate Cable called again and again on the meshes of the scene, without
\* caps, with and without the "Cables" collection.
InitOrganize ==
    /\ Init
    /\ ~props.add_end_caps /\ props.end_cap_type = "CYLINDER" /\ props.array_mesh = 0
NextOrganize == GenerateUpTo({{1}, {1, 2}, {1, 2, 3}}, MaxOrganized)
SpecOrganize == InitOrganize /\ [][NextOrganize]_vars

\* --------------------------------------------------------------- claims
\* The last step was a run of the scene-update callback that ran to its end.
Updated == last.op = "update" /\ last.result = "DONE"

IsCableObj(o) == o.type = "CURVE" /\ HasKey(o, "is_cable")

\* The end caps of the cable objs[i]: its children tagged is_end_cap.
TaggedCaps(i) ==
    {j \in 1..Len(objs) : objs[j].parent = objs[i].id /\ Truthy(Get(objs[j], "is_end_cap", 0))}

\* Its children named as start caps, and as end caps.
NamedStart(i) ==
    {j \in 1..Len(objs) : objs[j].parent = objs[i].id /\ StartsWith(objs[j].name, "Cap_Start")}
NamedEnd(i) ==
    {j \in 1..Len(objs) : objs[j].parent = objs[i].id /\ StartsWith(objs[j].name, "Cap_End")}

\* The cables the callback recomputes the handles of.
C1_Cables ==
    {i \in 1..Len(objs) : /\ IsCableObj(objs[i])
                          /\ HasKey(objs[i], "start_pos") /\ HasKey(objs[i], "cable_sag")
                          /\ objs[i].npts >= 2}

C2_SameEnd ==
    {q \in (1..Len(objs)) \X (1..Len(objs)) \X (1..Len(objs)) \X (1..Len(objs)) :
        /\ IsCableObj(objs[q[1]]) /\ IsCableObj(objs[q[3]]) /\ q[2] # q[4]
        /\ \/ /\ q[2] \in NamedStart(q[1]) /\ q[4] \in NamedStart(q[3])
              /\ StartTangent(objs[q[1]]) = StartTangent(objs[q[3]])
           \/ /\ q[2] \in NamedEnd(q[1]) /\ q[4] \in NamedEnd(q[3])
              /\ EndTangent(objs[q[1]]) = EndTangent(objs[q[3]])}

\* C2 as stated: after Generate Cable, Toggle End Caps, Reverse Direction or a
\* scene update, two end caps at the same end of cables with the same endpoint
\* tangent have the same position, orientation and scale.
C2_TransformFromTangent ==
    (last.op \in {"generate", "toggle", "reverse", "update"}
     /\ last.result \in {"FINISHED", "DONE"}) =>
        \A q \in C2_SameEnd :
            /\ objs[q[2]].loc = objs[q[4]].loc
            /\ objs[q[2]].rot = objs[q[4]].rot
            /\ objs[q[2]].scale = objs[q[4]].scale

\* The caps of the cable objs[i] carry the rotation built on its tangents.
C2_Oriented(i) ==
    /\ \A j \in NamedStart(i) : objs[j].rot = RotFromAxis(StartTangent(objs[i]))
    /\ \A j \in NamedEnd(i) \ NamedStart(i) : objs[j].rot = RotFromAxis(EndTangent(objs[i]))

\* C2, amended: of a cap's transform only the orientation is derived from the
\* tangent, and it is whenever the add-on re-orients the caps: after Toggle
\* End Caps has added caps to a cable, after Reverse Direction, and after a
\* completed scene update for every cable that has start_pos and cable_sag,
\* each child of the cable (of at least 2 points) named Cap_Start... carries
\* the rotation built on the start tangent and each child named Cap_End... the
\* rotation built on the end tangent.
C2_OrientationFromTangent ==
    /\ (/\ last.op = "toggle" /\ last.result = "FINISHED"
        /\ Truthy(Get(Obj(objs, last.target), "has_end_caps", 0))
        /\ Obj(objs, last.target).npts >= 2)
           => C2_Oriented(Idx(objs, last.target))
    /\ (last.op = "reverse" /\ last.result = "FINISHED" /\ Obj(objs, last.target).npts >= 2)
           => C2_Oriented(Idx(objs, last.target))
    /\ Updated => \A i \in C1_Cables : C2_Oriented(i)

\* Toggle End Caps has just added a start and an end cap to a cable whose end
\* tangent is not its stored end normal.
C2_Witness ==
    /\ last.op = "toggle" /\ last.result = "FINISHED"
    /\ \E i \in 1..Len(objs) :
          /\ objs[i].id = last.target
          /\ NamedStart(i) # {} /\ NamedEnd(i) # {}
          /\ EndTangent(objs[i]) # objs[i].cp["end_normal"]
          /\ C2_Oriented(i)

Decorators ==
    {i \in 1..Len(objs) : /\ objs[i].type = "MESH" /\ HasKey(objs[i], "has_array")
                          /\ FirstArray(objs[i]) # 0}

C5_CountMirrored ==
    Updated =>
        \A i \in Decorators :
            HasKey(objs[i], "array_count") =>
                objs[i].mods[FirstArray(objs[i])].count = objs[i].cp["array_count"]

\* C5, amended: the count is mirrored in fixed-count mode only: after a run of
\* the scene-update callback that ran to its end, for every mesh tagged
\* has_array that has array_count and whose array_fit_curve is 0, the count of
\* its first array modifier equals array_count.
C5_CountMirroredWhenFixed ==
    Updated =>
        \A i \in Decorators :
            (/\ HasKey(objs[i], "array_count")
             /\ HasKey(objs[i], "array_fit_curve") /\ objs[i].cp["array_fit_curve"] = 0) =>
                objs[i].mods[FirstArray(objs[i])].count = objs[i].cp["array_count"]

\* A decorator in fixed-count mode whose array_count was edited to 20 and
\* whose modifier the callback has since set to 20.
C5_Witness ==
    /\ Updated /\ edits = 1
    /\ \E i \in Decorators :
          /\ HasKey(objs[i], "array_fit_curve") /\ objs[i].cp["array_fit_curve"] = 0
          /\ Get(objs[i], "array_count", 0) = 20
          /\ objs[i].mods[FirstArray(objs[i])].count = 20

\* C6 as stated: Toggle End Caps is a binary switch: a call that ends with
\* has_end_caps set to 1 has left one start cap and one end cap parented to
\* the cable, and a call that ends with has_end_caps at 0 has left no child
\* tagged is_end_cap.
C6_BinarySwitch ==
    (last.op = "toggle" /\ last.result = "FINISHED") =>
        \E i \in 1..Len(objs) :
            /\ objs[i].id = last.target
            /\ IF Truthy(Get(objs[i], "has_end_caps", 0))
               THEN /\ Cardinality(TaggedCaps(i) \cap NamedStart(i)) = 1
                    /\ Cardinality(TaggedCaps(i) \cap (NamedEnd(i) \ NamedStart(i))) = 1
               ELSE TaggedCaps(i) = {}

\* The selected meshes and the faces selected on the meshes in edit mode.
SelectedMeshes(sel) == {id \in sel : Obj(objs, id).type = "MESH"}
SelectedFaces(sel, edit, fsel) ==
    {x \in SelectedMeshes(sel) \X {1, 2} : x[1] \in edit /\ x[2] \in fsel[x[1]]}

\* The three cases in which Generate Cable has too little to connect.
C7_AbortCase(sel, edit, fsel) ==
    \/ sel = {}
    \/ /\ SelectedMeshes(sel) \cap edit # {}
       /\ Cardinality(SelectedFaces(sel, edit, fsel)) < 2
    \/ /\ SelectedMeshes(sel) \cap edit = {}
       /\ Cardinality(SelectedMeshes(sel)) < 2

C7_Aborted(r) ==
    /\ r.last.result = "CANCELLED" /\ r.last.level = "WARNING"
    /\ r.objs = objs /\ r.collections = collections /\ r.props = props

\* C7: in every scene, with every selection, any of the selected objects in
\* edit mode and the same faces selected on each, Generate Cable returns CANCELLED with a warning and leaves the
\* objects and the collections as they are when nothing is selected, when
\* a selected mesh is in edit mode and fewer than 2 faces are selected in
\* total, and when no selected mesh is in edit mode and fewer than 2 of the
\* selected objects are meshes.
C7_AbortsCreateNothing ==
    \A sel \in Selections : \A edit \in SUBSET sel : \A f \in FaceChoices :
        C7_AbortCase(sel, edit, [id \in sel |-> f]) =>
            C7_Aborted(GenerateCable(objs, props, collections, sel, edit, [id \in sel |-> f]))

\* Generate Cable has been cancelled in edit mode with one face selected, in
\* a scene that already has a cable.
C7_Witness ==
    /\ last.op = "generate" /\ last.result = "CANCELLED" /\ last.level = "WARNING"
    /\ last.faces /\ Len(last.pts) = 1
    /\ NumCables(objs) > 0

\* C8: a step of Toggle End Caps, Reverse Direction, Apply Array Mesh or
\* Convert to Mesh that reports a warning returns CANCELLED and changes
\* neither the objects (their number, metadata, names, handles, modifiers)
\* nor the settings nor the collections.
C8_WarningsChangeNothing ==
    [][(/\ last'.op \in {"toggle", "reverse", "apply_array", "convert"}
        /\ last'.level = "WARNING")
       => (/\ last'.result = "CANCELLED"
           /\ objs' = objs /\ props' = props /\ collections' = collections)]_vars

\* Toggle End Caps has warned about a cable without caps that lacks its
\* position data.
C8_Witness ==
    /\ last.op = "toggle" /\ last.level = "WARNING" /\ last.result = "CANCELLED"
    /\ IsCable(objs, last.target)
    /\ ~Truthy(Get(Obj(objs, last.target), "has_end_caps", 0))
    /\ ~(HasKey(Obj(objs, last.target), "start_pos") /\ HasKey(Obj(objs, last.target), "end_pos"))

\* C9: a step of Generate Cable that finishes in the face branch or in
\* SEQUENTIAL mode, on the n >= 2 points it took, adds exactly n-1 curves to
\* the scene and reports n-1; cable i runs from point i to point i+1, so the
\* end_pos of each cable is the start_pos of the next.
C9_SequentialChain ==
    [][(/\ last'.op = "generate" /\ last'.result = "FINISHED"
        /\ (last'.faces \/ props'.connection_mode = "SEQUENTIAL"))
       => (/\ Len(last'.pts) >= 2
           /\ Len(last'.created) = Len(last'.pts) - 1
           /\ last'.count = Len(last'.pts) - 1
           /\ NumCables(objs') = NumCables(objs) + Len(last'.pts) - 1
           /\ \A i \in 1..Len(last'.created) :
                 /\ last'.created[i] \notin Ids(objs)
                 /\ Obj(objs', last'.created[i]).type = "CURVE"
                 /\ Obj(objs', last'.created[i]).cp["start_pos"] = last'.pts[i].center
                 /\ Obj(objs', last'.created[i]).cp["end_pos"] = last'.pts[i + 1].center
           /\ \A i \in 1..(Len(last'.created) - 1) :
                 Obj(objs', last'.created[i]).cp["end_pos"]
                     = Obj(objs', last'.created[i + 1]).cp["start_pos"])]_vars

\* Three faces chained by two cables while connection_mode is ALL_TO_FIRST.
C9_Witness ==
    /\ last.op = "generate" /\ last.result = "FINISHED" /\ last.faces
    /\ props.connection_mode = "ALL_TO_FIRST"
    /\ Len(last.pts) = 3 /\ Len(last.created) = 2
    /\ Obj(objs, last.created[1]).cp["end_pos"] = Obj(objs, last.created[2]).cp["start_pos"]

\* C10: a step of Generate Cable that finishes in ALL_TO_FIRST mode with no
\* selected mesh in edit mode, on its n >= 2 selected meshes, adds exactly
\* n-1 curves to the scene, one for each selected mesh other than the first;
\* each has start_pos at the centre of the first selected mesh and end_pos at
\* the centre of its own mesh.
C10_AllToFirst ==
    [][(/\ last'.op = "generate" /\ last'.result = "FINISHED"
        /\ ~last'.faces /\ props'.connection_mode = "ALL_TO_FIRST")
       => (/\ Len(last'.pts) >= 2
           /\ Len(last'.created) = Len(last'.pts) - 1
           /\ NumCables(objs') = NumCables(objs) + Len(last'.pts) - 1
           /\ \A i, j \in 1..Len(last'.pts) :
                 i # j => last'.pts[i].object # last'.pts[j].object
           /\ \A i \in 1..Len(last'.created) :
                 /\ last'.created[i] \notin Ids(objs)
                 /\ Obj(objs', last'.created[i]).type = "CURVE"
                 /\ Obj(objs', last'.created[i]).cp["start_pos"]
                        = Obj(objs, last'.pts[1].object).loc
                 /\ Obj(objs', last'.created[i]).cp["end_pos"]
                        = Obj(objs, last'.pts[i + 1].object).loc)]_vars

\* Three meshes joined by two cables that both start at the first mesh.
C10_Witness ==
    /\ last.op = "generate" /\ last.result = "FINISHED" /\ ~last.faces
    /\ props.connection_mode = "ALL_TO_FIRST"
    /\ Len(last.pts) = 3 /\ Len(last.created) = 2
    /\ Obj(objs, last.created[1]).cp["start_pos"] = Obj(objs, last.created[2]).cp["start_pos"]
    /\ Obj(objs, last.created[1]).cp["end_pos"] # Obj(objs, last.created[2]).cp["start_pos"]

\* C11: a step of Generate Cable that finishes having created more than one
\* cable with organize_collections enabled leaves every created cable linked
\* to 'Cables' and to nothing else, with exactly one collection of that name:
\* the existing one, or a new one when there was none.  A finishing step that
\* created one cable, or with organize_collections disabled, leaves the
\* collections as they were, the created cables in the scene's collection and
\* every earlier object where it was.
C11_CablesCollection ==
    [][(last'.op = "generate" /\ last'.result = "FINISHED")
       => IF Len(last'.created) > 1 /\ props.organize_collections
          THEN /\ \A j \in 1..Len(last'.created) :
                     Obj(objs', last'.created[j]).colls = {"Cables"}
               /\ Cardinality({k \in 1..Len(collections') : collections'[k] = "Cables"}) = 1
               /\ IF \E k \in 1..Len(collections) : collections[k] = "Cables"
                  THEN collections' = collections
                  ELSE collections' = Append(collections, "Cables")
          ELSE /\ collections' = collections
               /\ \A j \in 1..Len(last'.created) :
                     Obj(objs', last'.created[j]).colls = {SceneColl}
               /\ \A id \in Ids(objs) : Obj(objs', id).colls = Obj(objs, id).colls]_vars

\* A second call has put two more cables into the 'Cables' collection the
\* first call made.
C11_Witness ==
    /\ last.op = "generate" /\ last.result = "FINISHED" /\ props.organize_collections
    /\ Len(last.created) = 2 /\ NumCables(objs) = 4
    /\ collections = <<SceneColl, "Cables">>
    /\ \A i \in 1..Len(objs) : objs[i].type = "CURVE" => objs[i].colls = {"Cables"}

\* The four metadata values Reverse Direction exchanges.
EndKeys == {"start_pos", "end_pos", "start_normal", "end_normal"}

\* What one Reverse Direction on the cable a turns the scene os0 into, when
\* once is its result: the metadata exchanged, every Cap_Start child a
\* Cap_End child and every Cap_End child a Cap_Start child.
C12_Exchanged(os0, once, a) ==
    /\ Obj(once, a).cp["start_pos"] = Obj(os0, a).cp["end_pos"]
    /\ Obj(once, a).cp["end_pos"] = Obj(os0, a).cp["start_pos"]
    /\ Obj(once, a).cp["start_normal"] = Obj(os0, a).cp["end_normal"]
    /\ Obj(once, a).cp["end_normal"] = Obj(os0, a).cp["start_normal"]
    /\ Len(once) = Len(os0)
    /\ \A j \in 1..Len(os0) :
          os0[j].parent = a =>
              /\ StartsWith(os0[j].name, "Cap_Start") =>
                     (StartsWith(once[j].name, "Cap_End") /\ ~StartsWith(once[j].name, "Cap_Start"))
              /\ StartsWith(os0[j].name, "Cap_End") =>
                     (StartsWith(once[j].name, "Cap_Start") /\ ~StartsWith(once[j].name, "Cap_End"))

C13_Pair(preset_type) ==
    IF preset_type = "THIN" THEN <<10, 8>>
    ELSE IF preset_type = "MEDIUM" THEN <<50, 12>>
    ELSE IF preset_type = "THICK" THEN <<100, 16>>
    ELSE <<80, 12>>

\* C13: in every scene and for each of the four presets, Apply Preset
\* finishes with the scene settings thickness and resolution set to the
\* preset's pair, the thickness being the one its description states, and
\* with every other setting, every object (so the cable_thickness and
\* cable_resolution of every cable) and the collections unchanged.
C13_PresetSetsSettingsOnly ==
    \A t \in PresetTypes :
        \A r \in {ApplyPreset(objs, props, collections, t)} :
            /\ r.last.result = "FINISHED"
            /\ r.props = [props EXCEPT !.thickness = C13_Pair(t)[1],
                                       !.resolution = C13_Pair(t)[2]]
            /\ r.props.thickness = PresetDescription(t)
            /\ r.objs = objs
            /\ r.collections = collections

\* The THIN preset has been applied in a scene with a cable generated under
\* the THICK preset, which keeps its thickness and resolution.
C13_Witness ==
    /\ last.op = "preset" /\ props.thickness = 10 /\ props.resolution = 8
    /\ \E i \in 1..Len(objs) :
          /\ IsCableObj(objs[i])
          /\ objs[i].cp["cable_thickness"] = 100

\* The decorator d as Apply Array Mesh leaves it for one of the curves, with
\* the settings p.
C14_Decorator(d, curves, p) ==
    /\ d.type = "MESH" /\ d.parent \in curves
    /\ DOMAIN d.cp = DOMAIN Obj(objs, p.array_mesh).cp
                        \cup {"has_array", "array_scale", "array_count", "array_fit_curve"}
    /\ d.cp["has_array"] = 1 /\ d.cp["array_count"] = 10 /\ d.cp["array_fit_curve"] = 1
    /\ d.cp["array_scale"] = p.array_scale
    /\ FirstArray(d) # 0
    /\ d.mods[FirstArray(d)].fit_type = "FIT_CURVE" /\ d.mods[FirstArray(d)].count = 10
    /\ d.scale = <<p.array_scale, p.array_scale, p.array_scale>>
    /\ UpdateArray(d) = d

\* C14: in every scene, with an array mesh chosen and with every selection
\* that holds k >= 1 curves, Apply Array Mesh finishes, leaves every object
\* of the scene (the array mesh and the curves among them) as it was, and
\* adds exactly k objects, one parented to each selected curve: each a mesh
\* tagged has_array with array_count 10, array_fit_curve 1 and array_scale
\* the scene's array_scale, whose first array modifier is in FIT_CURVE mode
\* with count 10 and whose scale is array_scale, so that a scene update has
\* nothing to change on it.
C14_DecoratorPerCurve ==
    \A sel \in Selections :
        (props.array_mesh # 0 /\ \E c \in sel : Obj(objs, c).type = "CURVE") =>
            \A r \in {ApplyArrayMesh(objs, props, collections, sel)} :
                /\ r.last.result = "FINISHED"
                /\ r.props = props /\ r.collections = collections
                /\ Len(r.objs) = Len(objs)
                                   + Cardinality({c \in sel : Obj(objs, c).type = "CURVE"})
                /\ SubSeq(r.objs, 1, Len(objs)) = objs
                /\ \A c \in {x \in sel : Obj(objs, x).type = "CURVE"} :
                      Cardinality({j \in (Len(objs) + 1)..Len(r.objs) :
                                      r.objs[j].parent = c}) = 1
                /\ \A j \in (Len(objs) + 1)..Len(r.objs) :
                      /\ C14_Decorator(r.objs[j],
                                       {x \in sel : Obj(objs, x).type = "CURVE"}, props)
                      /\ r.objs[j].id \notin Ids(objs)

\* Apply Array Mesh has given each of two selected cables a decorator, at
\* array scale 2.5.
C14_Witness ==
    /\ last.op = "apply_array" /\ last.result = "FINISHED" /\ last.count = 2
    /\ props.array_scale = 2500
    /\ \E i, j \in Decorators :
          /\ objs[i].parent # objs[j].parent
          /\ objs[i].scale = <<2500, 2500, 2500>> /\ objs[j].scale = <<2500, 2500, 2500>>

\* What an array-mode command run with the active object a and ending as r
\* has done, when it is to write value: FINISHED, the flag of a set to value
\* if a has one, and nothing else changed.
C15_FlagOnly(r, a, value) ==
    /\ r.last.result = "FINISHED"
    /\ r.props = props /\ r.collections = collections
    /\ IF a # 0 /\ HasKey(Obj(objs, a), "array_fit_curve")
       THEN /\ Len(r.objs) = Len(objs)
            /\ \A j \in 1..Len(objs) :
                  IF objs[j].id = a
                  THEN /\ r.objs[j].cp["array_fit_curve"] = value
                       /\ r.objs[j] = [objs[j] EXCEPT !.cp = r.objs[j].cp]
                       /\ DOMAIN r.objs[j].cp = DOMAIN objs[j].cp
                       /\ \A k \in DOMAIN objs[j].cp :
                             k # "array_fit_curve" => r.objs[j].cp[k] = objs[j].cp[k]
                  ELSE r.objs[j] = objs[j]
       ELSE r.objs = objs

\* C15: in every scene and with every active object (or none), Fit to Curve
\* and Fixed Count return FINISHED; on an object that has array_fit_curve
\* they set it to 1 and to 0 and change nothing else (not the modifier's fit
\* type or count); on any other object, or none, they change nothing.
C15_ModeCommandsWriteFlagOnly ==
    \A a \in Actives :
        /\ C15_FlagOnly(SetArrayFitCurve(objs, props, collections, a), a, 1)
        /\ C15_FlagOnly(SetArrayFixedCount(objs, props, collections, a), a, 0)

\* Fixed Count has run on a decorator: its flag is 0 and its modifier is
\* still in FIT_CURVE mode.
C15_Witness ==
    /\ last.op = "fixed_count" /\ last.result = "FINISHED"
    /\ \E i \in Decorators :
          /\ objs[i].id = last.target
          /\ objs[i].cp["array_fit_curve"] = 0
          /\ objs[i].mods[FirstArray(objs[i])].fit_type = "FIT_CURVE"

\* The settings with which create_end_cap makes a cap.
C16_CapsConfigured ==
    /\ props.add_end_caps
    /\ \/ props.end_cap_type \in {"CYLINDER", "SPHERE"}
       \/ props.end_cap_type = "CUSTOM" /\ props.end_cap_mesh # 0

\* C16: when Generate Cable has finished, every cable it created has, if
\* caps are configured (add_end_caps with CYLINDER, SPHERE, or CUSTOM with a
\* custom mesh), exactly two children, both tagged is_end_cap, one named
\* Cap_Start... at the cable's start_pos and one named Cap_End... at its
\* end_pos, and has_end_caps 1; otherwise no child and has_end_caps 0.
C16_CapsAsConfigured ==
    (last.op = "generate" /\ last.result = "FINISHED") =>
        \A n \in 1..Len(last.created) :
            \E i \in 1..Len(objs) :
                /\ objs[i].id = last.created[n]
                /\ IF C16_CapsConfigured
                   THEN /\ objs[i].cp["has_end_caps"] = 1
                        /\ Cardinality(TaggedCaps(i)) = 2
                        /\ TaggedCaps(i) = {j \in 1..Len(objs) : objs[j].parent = objs[i].id}
                        /\ \E j, k \in TaggedCaps(i) :
                              /\ j # k
                              /\ StartsWith(objs[j].name, "Cap_Start")
                              /\ objs[j].loc = objs[i].cp["start_pos"]
                              /\ StartsWith(objs[k].name, "Cap_End")
                              /\ objs[k].loc = objs[i].cp["end_pos"]
                   ELSE /\ objs[i].cp["has_end_caps"] = 0
                        /\ \A j \in 1..Len(objs) : objs[j].parent # objs[i].id

\* Two cables generated with copies of the custom mesh as caps.
C16_Witness ==
    /\ last.op = "generate" /\ last.result = "FINISHED" /\ Len(last.created) = 2
    /\ props.add_end_caps /\ props.end_cap_type = "CUSTOM" /\ props.end_cap_mesh # 0
    /\ \A n \in 1..2 :
          Cardinality({j \in 1..Len(objs) : /\ objs[j].parent = last.created[n]
                                           /\ Truthy(Get(objs[j], "is_end_cap", 0))}) = 2

C18_SecondRunChangesNothing ==
    \A r1 \in {cable_update_handler(objs)} :
        \A r2 \in {cable_update_handler(r1.os)} :
            r2.os = r1.os /\ r2.raised = r1.raised

\* The callback has run to its end after an edit by hand, on a scene with a
\* cable, its two caps and a decorator.
C18_Witness ==
    /\ Updated /\ edits = 1
    /\ Decorators # {}
    /\ \E i \in 1..Len(objs) : IsCableObj(objs[i]) /\ Cardinality(TaggedCaps(i)) = 2

====
